---- MODULE Spec2Model ----
(***************************************************************************)
(* A model of the md-to-pdf browser application: the settings form, the    *)
(* debounced editor input, the preview render cycle (updatePreview), the   *)
(* diagram overlay (MermaidRenderer), the pagination estimator             *)
(* (addPageBreakIndicators) and the export path (PDFGenerator.generate).   *)
(*                                                                         *)
(* Units.  Millimetres are kept in tenths (297 mm = 2970), because the     *)
(* paper table holds 215.9 and 279.4.  A pixel length is a pair <<a, b>>   *)
(* that stands for  a + b * (MM_TO_PX / 10)  pixels: a is what the layout  *)
(* measured, b is what the program obtained by multiplying millimetres by  *)
(* MM_TO_PX = 3.7795275591.  Comparisons of such lengths are exact: they   *)
(* multiply by the eleven digits of MM_TO_PX in base 10^4 limbs.           *)
(***************************************************************************)
EXTENDS Integers, Sequences, FiniteSets, TLC

\* ------------------------------------------------------------------------
\* Exact arithmetic with MM_TO_PX
\* ------------------------------------------------------------------------

\* MM_TO_PX = 3.7795275591, as the integer 37795275591 * 10^-10, in limbs of
\* four decimal digits, least significant first: 377 | 9527 | 5591.
MM_TO_PX == <<5591, 9527, 377>>

\* c * 37795275591 for 0 <= c < 200000, as five limbs, least significant first.
MulMmToPx(c) ==
    LET p0 == c * MM_TO_PX[1]
        p1 == c * MM_TO_PX[2] + (p0 \div 10000)
        p2 == c * MM_TO_PX[3] + (p1 \div 10000)
        p3 == p2 \div 10000
    IN  <<p0 % 10000, p1 % 10000, p2 % 10000, p3 % 10000, p3 \div 10000>>

\* a * 10^11 for 0 <= a < 2000000, as five limbs (10^11 = 1000 * 10000 * 10000).
MulTenTo11(a) ==
    LET q == a * 1000
        q1 == q \div 10000
    IN  <<0, 0, q % 10000, q1 % 10000, q1 \div 10000>>

\* x >= y for two numbers of five limbs.
LimbsGE(x, y) ==
    LET differ == {i \in 1..5 : x[i] # y[i]}
    IN  IF differ = {} THEN TRUE
        ELSE LET top == CHOOSE i \in differ : \A j \in differ : j <= i
             IN  x[top] > y[top]

\* c * (MM_TO_PX / 10) >= a, for an integer c and a measured a >= 0.
ScaledGE(c, a) ==
    IF c < 0 THEN FALSE
    ELSE IF c = 0 THEN a = 0
    ELSE LimbsGE(MulMmToPx(c), MulTenTo11(a))

\* The pixel length <<a, b>> is zero (a >= 0 and b >= 0 in every use).
IsZeroPx(h) == h[1] = 0 /\ h[2] = 0

\* n * (pmm * MM_TO_PX / 10) >= h, for the pixel length h = <<a, b>>.
PagesCover(n, pmm, h) == ScaledGE(n * pmm - h[2], h[1])

AddPx(g, h) == <<g[1] + h[1], g[2] + h[2]>>

\* g >= h for two pixel lengths.
PxGE(g, h) ==
    LET c == g[2] - h[2]
        a == h[1] - g[1]
    IN  IF a >= 0 THEN ScaledGE(c, a)
        ELSE IF c >= 0 THEN TRUE
        ELSE LimbsGE(MulTenTo11(-a), MulMmToPx(-c))

PxGT(g, h) == ~PxGE(h, g)

\* ------------------------------------------------------------------------
\* Settings form and getSettings
\* ------------------------------------------------------------------------

PaperSizes == {"a4", "letter", "legal", "a3", "a5"}

\* PAPER_DIMENSIONS of the UI controller, in tenths of a millimetre.
PAPER_DIMENSIONS ==
    [ a4     |-> [width |-> 2100, height |-> 2970],
      letter |-> [width |-> 2159, height |-> 2794],
      legal  |-> [width |-> 2159, height |-> 3556],
      a3     |-> [width |-> 2970, height |-> 4200],
      a5     |-> [width |-> 1480, height |-> 2100] ]

\* PAPER_DIMENSIONS of the PDF generator, in tenths of a millimetre.
PdfPaperDimensions ==
    [ a4     |-> [width |-> 2100, height |-> 2970],
      letter |-> [width |-> 2160, height |-> 2790],
      legal  |-> [width |-> 2160, height |-> 3560],
      a3     |-> [width |-> 2970, height |-> 4200],
      a5     |-> [width |-> 1480, height |-> 2100] ]

\* The `size` of the @page rule buildPrintStyles writes: the paper's
\* dimensions, exchanged for landscape.
BuildPrintStyles(settings) ==
    LET dims == IF settings.paperSize \in DOMAIN PdfPaperDimensions
                THEN PdfPaperDimensions[settings.paperSize]
                ELSE PdfPaperDimensions["a4"]
    IN  [width  |-> IF settings.orientation = "landscape" THEN dims.height ELSE dims.width,
         height |-> IF settings.orientation = "landscape" THEN dims.width ELSE dims.height]

\* The texts a margin field can hold in this model.
MarginTexts == {"", "abc", "0", "10", "12.5", "25", "287", "290"}

\* parseFloat of a field text: [nan |-> TRUE] when the text holds no number,
\* else its value in tenths.
ParseFloat(text) ==
    CASE text = "0"    -> [nan |-> FALSE, v |-> 0]
      [] text = "10"   -> [nan |-> FALSE, v |-> 100]
      [] text = "12.5" -> [nan |-> FALSE, v |-> 125]
      [] text = "25"   -> [nan |-> FALSE, v |-> 250]
      [] text = "287"  -> [nan |-> FALSE, v |-> 2870]
      [] text = "290"  -> [nan |-> FALSE, v |-> 2900]
      [] OTHER         -> [nan |-> TRUE,  v |-> 0]

\* `parseFloat(text) || 10`: NaN and 0 are falsy, so both give the default.
MarginOf(text) ==
    LET f == ParseFloat(text)
    IN  IF f.nan \/ f.v = 0 THEN 100 ELSE f.v

\* getSettings: the snapshot of the form (the fields this model carries).
GetSettings(f) ==
    [ paperSize     |-> f.paperSize,
      orientation   |-> f.orientation,
      margins       |-> [top |-> MarginOf(f.marginTop), bottom |-> MarginOf(f.marginBottom)],
      renderMermaid |-> f.renderMermaid ]

\* ------------------------------------------------------------------------
\* The preview container and the pagination estimator
\* ------------------------------------------------------------------------

\* A page height that forgets the bottom margin.
PageHeightTopOnly(settings) ==
    PAPER_DIMENSIONS[settings.paperSize].height - settings.margins.top

\* pageHeight of addPageBreakIndicators, in units of MM_TO_PX / 10 pixels.
PageHeightMm10(settings) ==
    LET paperSize  == IF settings.paperSize = "" THEN "a4" ELSE settings.paperSize
        dimensions == PAPER_DIMENSIONS[paperSize]
    IN  dimensions.height - settings.margins.top - settings.margins.bottom

\* Math.ceil(h / p) for p = pmm * MM_TO_PX / 10 > 0 and h >= 0: the least n
\* with n * p >= h.  n never exceeds (3a + b) / pmm + 1, since MM_TO_PX / 10 > 1/3.
CeilDiv(h, pmm) ==
    LET limit == ((3 * h[1] + h[2]) \div pmm) + 1
    IN  CHOOSE n \in 0..limit :
            /\ PagesCover(n, pmm, h)
            /\ \A m \in 0..limit : PagesCover(m, pmm, h) => n <= m

Max(a, b) == IF a >= b THEN a ELSE b

\* totalPages = Math.max(1, Math.ceil(actualContentHeight / pageHeight)).
\* A zero page height divides by zero: Infinity for h > 0, NaN for h = 0
\* (Math.max(1, NaN) is NaN).  A negative page height gives a quotient <= 0.
TotalPages(h, pmm) ==
    IF pmm = 0
    THEN IF IsZeroPx(h) THEN [kind |-> "nan", n |-> 0] ELSE [kind |-> "inf", n |-> 0]
    ELSE IF pmm < 0 THEN [kind |-> "num", n |-> 1]
    ELSE [kind |-> "num", n |-> Max(1, CeilDiv(h, pmm))]

\* The laid-out height of one content block.
BlockHeight(b) ==
    AddPx(IF b.svg THEN <<b.hsvg, 0>> ELSE b.h, <<b.errs * b.herr, 0>>)

\* The laid-out height of the page-count display: a block in normal flow
\* (the code gives it a class and a text, no position).
PageDisplayHeight == <<50, 0>>

IsAutoPageBreak(e) == e.cls = "auto-page-break"

IsNotAutoPageBreak(e) == ~IsAutoPageBreak(e)

RECURSIVE SumHeights(_)
SumHeights(blocks) ==
    IF blocks = <<>> THEN <<0, 0>>
    ELSE AddPx(BlockHeight(Head(blocks)), SumHeights(Tail(blocks)))

\* The measuring loop of addPageBreakIndicators over the appended children,
\* which follow the content blocks in the flow: `pos` is the bottom of the
\* previous child in the flow, `actual` the running maximum.
RECURSIVE MeasureAppended(_, _, _)
MeasureAppended(appended, pos, actual) ==
    IF appended = <<>> THEN actual
    ELSE LET child == Head(appended)
         IN  IF IsAutoPageBreak(child)
             THEN MeasureAppended(Tail(appended), pos, actual)
             ELSE LET childBottom == AddPx(pos, PageDisplayHeight)
                  IN  MeasureAppended(Tail(appended), childBottom,
                                      IF PxGT(childBottom, actual) THEN childBottom ELSE actual)

\* actualContentHeight: the greatest bottom edge among the children that are
\* not automatic break markers.  Content blocks stack in the flow, so the
\* greatest bottom among them is the sum of their heights.
MeasuredHeight(c) ==
    LET content == SumHeights(c.blocks)
    IN  MeasureAppended(c.appended, content, content)

\* A marker loop that runs one page too far (page <= totalPages).
AutoBreaksThroughLast(pages, pmm) ==
    IF pages.kind = "num" /\ pages.n > 1
    THEN [k \in 1..pages.n |->
             [cls |-> "auto-page-break", page |-> k, total |-> pages, top |-> k * pmm]]
    ELSE <<>>

\* The loop `for (page = 1; page < totalPages; page++)`: one marker for each
\* page boundary.
AutoBreaks(pages, pmm) ==
    IF pages.kind = "num" /\ pages.n > 1
    THEN [k \in 1..(pages.n - 1) |->
             [cls |-> "auto-page-break", page |-> k, total |-> pages, top |-> k * pmm]]
    ELSE <<>>

PageDisplay(pages) ==
    [cls |-> "page-number-display", page |-> 0, total |-> pages, top |-> 0]

\* addPageBreakIndicators never returns when totalPages is Infinity.
EstimatorHangs(c, settings) ==
    TotalPages(MeasuredHeight([c EXCEPT !.appended = SelectSeq(c.appended, IsNotAutoPageBreak)]),
               PageHeightMm10(settings)).kind = "inf"

\* addPageBreakIndicators(settings) on the container c.
AddPageBreakIndicators(c, settings) ==
    LET pageHeight == PageHeightMm10(settings)
        removed    == [c EXCEPT !.appended = SelectSeq(c.appended, IsNotAutoPageBreak)]
        totalPages == TotalPages(MeasuredHeight(removed), pageHeight)
    IN  [removed EXCEPT !.appended =
            removed.appended \o AutoBreaks(totalPages, pageHeight) \o <<PageDisplay(totalPages)>>]

\* ------------------------------------------------------------------------
\* Markdown source and MarkdownParser.parse
\* ------------------------------------------------------------------------

\* A markdown text is a sequence of source blocks: "space" (white space only),
\* "para", "pagebreak" (the manual marker), "diagram" (a mermaid fence the
\* engine can draw) and "baddiagram" (a mermaid fence with a syntax error).
Docs == { <<"para">>, <<"diagram">>, <<"baddiagram">> }

\* `!markdown.trim()`
IsBlank(md) == \A i \in 1..Len(md) : md[i] = "space"

IsDiagramSource(src) == src \in {"diagram", "baddiagram"}

\* The content block one source block renders to, with the heights the layout
\* gives it: h as rendered by the parser, hsvg once the engine has inserted the
\* graphic, herr for one error annotation in its wrapper; escaped: `<` and `>`
\* of the source are written as entities.
RenderBlock(src, enabled) ==
    CASE src = "para" ->
            [kind |-> "p", escaped |-> TRUE, h |-> <<1000, 0>>, hsvg |-> 0, herr |-> 0,
             valid |-> TRUE, processed |-> FALSE, svg |-> FALSE, errs |-> 0]
      [] src = "pagebreak" ->
            [kind |-> "page-break", escaped |-> TRUE, h |-> <<0, 0>>, hsvg |-> 0, herr |-> 0,
             valid |-> TRUE, processed |-> FALSE, svg |-> FALSE, errs |-> 0]
      [] IsDiagramSource(src) /\ enabled ->
            [kind |-> "mermaid", escaped |-> FALSE, h |-> <<100, 0>>, hsvg |-> 600, herr |-> 60,
             valid |-> (src = "diagram"), processed |-> FALSE, svg |-> FALSE, errs |-> 0]
      [] OTHER ->
            [kind |-> "code", escaped |-> TRUE, h |-> <<100, 0>>, hsvg |-> 0, herr |-> 0,
             valid |-> TRUE, processed |-> FALSE, svg |-> FALSE, errs |-> 0]

IsPrinted(src) == src # "space"

\* MarkdownParser.parse(text) with the parser's mermaidEnabled flag: the
\* content blocks of the HTML, in document order.
Parse(md, enabled) ==
    LET printed == SelectSeq(md, IsPrinted)
    IN  [i \in 1..Len(printed) |-> RenderBlock(printed[i], enabled)]

\* ------------------------------------------------------------------------
\* The text of the editor, piece by piece, and the page-break extension
\* ------------------------------------------------------------------------

\* A text is a sequence of pieces: "<!--", "-->", "pagebreak", "sp" (one
\* space), "nl" (a line end) and "text" (a word of two characters or more).
At(src, i) == IF i \in DOMAIN src THEN src[i] ELSE "eof"

Rest(src, n) == SubSeq(src, n + 1, Len(src))

\* The piece that ends a match of /<!-- ?pagebreak ?-->/ begun at piece i
\* of src; 0 when there is no match there.
MarkerEnd(src, i) ==
    IF At(src, i) # "<!--" THEN 0
    ELSE LET word == IF At(src, i + 1) = "sp" THEN i + 2 ELSE i + 1
         IN  IF At(src, word) # "pagebreak" THEN 0
             ELSE LET close == IF At(src, word + 1) = "sp" THEN word + 2 ELSE word + 1
                  IN  IF At(src, close) = "-->" THEN close ELSE 0

\* A match that takes both inner spaces for granted.
MarkerEndSpaced(src, i) ==
    IF /\ At(src, i) = "<!--" /\ At(src, i + 1) = "sp" /\ At(src, i + 2) = "pagebreak"
       /\ At(src, i + 3) = "sp" /\ At(src, i + 4) = "-->"
    THEN i + 4 ELSE 0

\* A tokenizer whose rule takes both inner spaces for granted.
PagebreakTokenizerSpaced(src) ==
    LET close == MarkerEndSpaced(src, 1)
    IN  IF close = 0 THEN 0
        ELSE IF At(src, close + 1) = "nl" THEN close + 1 ELSE close

\* tokenizer(src): the length of match[0] for the rule
\* /^<!-- ?pagebreak ?-->\n?/, 0 when the rule does not match.
PagebreakTokenizer(src) ==
    LET close == MarkerEnd(src, 1)
    IN  IF close = 0 THEN 0
        ELSE IF At(src, close + 1) = "nl" THEN close + 1 ELSE close

\* start(src): match.index for /^<!-- ?pagebreak ?-->/m, -1 for undefined.
PagebreakStart(src) ==
    LET hits == { i \in 0 .. (Len(src) - 1) :
                    /\ i = 0 \/ src[i] = "nl"
                    /\ MarkerEnd(src, i + 1) > 0 }
    IN  IF hits = {} THEN -1 ELSE CHOOSE i \in hits : \A j \in hits : i <= j

\* renderer(): '<div class="page-break"></div>\n'
PagebreakRenderer == << [kind |-> "page-break"] >>

\* The first line of src: the pieces before its line end, and its length
\* with the line end.
FirstNl(src) ==
    IF \E i \in DOMAIN src : src[i] = "nl"
    THEN CHOOSE i \in DOMAIN src : src[i] = "nl" /\ \A j \in 1 .. (i - 1) : src[j] # "nl"
    ELSE Len(src) + 1

LineLen(src) == IF FirstNl(src) <= Len(src) THEN FirstNl(src) ELSE Len(src)

IsBlankLine(src) == \A i \in 1 .. (FirstNl(src) - 1) : src[i] = "sp"

\* Marked's block rule for an HTML comment: up to three spaces, "<!--",
\* everything to the first "-->" and on to the end of that line.
IsHtmlStart(src) ==
    \E n \in 0 .. 3 : (\A i \in 1 .. n : At(src, i) = "sp") /\ At(src, n + 1) = "<!--"

HtmlLen(src) ==
    LET closes == { j \in DOMAIN src : src[j] = "-->" }
        close  == IF closes = {} THEN Len(src)
                  ELSE CHOOSE j \in closes : \A k \in closes : j <= k
    IN  close + LineLen(Rest(src, close))

\* Marked's paragraph rule: the first line and every following line that is
\* neither blank nor the start of an HTML block.
RECURSIVE ParagraphLen(_)
ParagraphLen(src) ==
    LET n    == LineLen(src)
        rest == Rest(src, n)
    IN  IF At(src, n) = "nl" /\ rest # <<>> /\ ~IsBlankLine(rest) /\ ~IsHtmlStart(rest)
        THEN n + ParagraphLen(rest)
        ELSE n

\* Marked's block lexer and renderer with the extension registered
\* (marked.use, `extensions: [pagebreakExtension]`): at the start of every
\* block the extension's tokenizer is tried first, then the blank-line rule,
\* the HTML rule, and the paragraph rule on the text clipped at the index
\* the extension's start gives for src.slice(1).
RECURSIVE MarkedParse(_)
MarkedParse(src) ==
    IF src = <<>> THEN <<>>
    ELSE IF PagebreakTokenizer(src) > 0
         THEN PagebreakRenderer \o MarkedParse(Rest(src, PagebreakTokenizer(src)))
    ELSE IF IsBlankLine(src)
         THEN MarkedParse(Rest(src, LineLen(src)))
    ELSE IF IsHtmlStart(src)
         THEN << [kind |-> "html"] >> \o MarkedParse(Rest(src, HtmlLen(src)))
    ELSE LET cut    == PagebreakStart(Rest(src, 1))
             cutSrc == IF cut >= 0 THEN SubSeq(src, 1, cut + 1) ELSE src
         IN  << [kind |-> "p"] >> \o MarkedParse(Rest(src, ParagraphLen(cutSrc)))

\* The values parse is called with: strings (texts) and values that are no
\* string.
IsFalsy(v) ==
    \/ v.type \in {"undefined", "null"}
    \/ v.type = "number" /\ v.value = 0
    \/ v.type = "string" /\ v.value = <<>>

\* '<p style="color: red;">Error parsing markdown</p>'
ErrorPlaceholder == << [kind |-> "error"] >>

\* parse without its guard and its try: marked.parse(text), which raises on
\* a value that is no string.
ParseUnguarded(v, raises) ==
    IF v.type # "string" \/ raises
    THEN [threw |-> TRUE, html |-> <<>>]
    ELSE [threw |-> FALSE, html |-> MarkedParse(v.value)]

\* MarkdownParser.parse(text); raises: marked.parse raises an error on this
\* text.  The result is the string returned, as the blocks of the HTML.
MarkdownParserParse(v, raises) ==
    IF IsFalsy(v) \/ v.type # "string"
    THEN [threw |-> FALSE, html |-> <<>>]
    ELSE IF raises
         THEN [threw |-> FALSE, html |-> ErrorPlaceholder]
         ELSE [threw |-> FALSE, html |-> MarkedParse(v.value)]

\* ------------------------------------------------------------------------
\* The header and footer of the print document
\* ------------------------------------------------------------------------

\* A template, a title and a header text are sequences of pieces: the four
\* tokens "{date}", "{title}", "{pageNumber}", "{totalPages}", "sp" (a
\* space), "w" (a word), "<", and in a result "date" (the formatted date)
\* and "&lt;".

\* new Date().toLocaleDateString('ja-JP')
Today == << "date" >>

\* text.replace(/token/g, by)
RECURSIVE ReplaceAll(_, _, _)
ReplaceAll(text, token, by) ==
    IF text = <<>> THEN <<>>
    ELSE (IF Head(text) = token THEN by ELSE << Head(text) >>)
            \o ReplaceAll(Tail(text), token, by)

\* The four replace calls, one after the other on the result of the last.
Substitute(template, title) ==
    ReplaceAll(ReplaceAll(ReplaceAll(ReplaceAll(template, "{date}", Today),
                                     "{title}", title),
                          "{pageNumber}", <<>>),
               "{totalPages}", <<>>)

\* text.trim() is empty
IsBlankText(text) == \A i \in DOMAIN text : text[i] = "sp"

\* escapeHtml(text)
EscapeHtml(text) == [i \in DOMAIN text |-> IF text[i] = "<" THEN "&lt;" ELSE text[i]]

\* One of the two halves of buildHeaderFooterHtml.
PrintElement(cls, enabled, template, title) ==
    IF enabled /\ template # <<>> /\ ~IsBlankText(Substitute(template, title))
    THEN << [cls |-> cls, text |-> EscapeHtml(Substitute(template, title))] >>
    ELSE <<>>

\* buildHeaderFooterHtml(settings, title): the elements of the HTML returned.
BuildHeaderFooterHtml(settings, title) ==
    PrintElement("print-header", settings.enableHeader, settings.headerTemplate, title)
        \o PrintElement("print-footer", settings.enableFooter, settings.footerTemplate, title)

\* ------------------------------------------------------------------------
\* State
\* ------------------------------------------------------------------------

VARIABLES
    booted,           \* app.js init() has run
    hung,             \* a handler is in a loop that never ends: the page is frozen
    mermaidLoaded,    \* typeof mermaid !== 'undefined'
    markdown,         \* elements.markdownInput.value
    form,             \* the settings fields
    mermaidEnabled,   \* the parser's mermaidEnabled flag
    preview,          \* elements.previewContent: [blocks, appended]
    cycles,           \* the updatePreview calls in progress
    rafQueue,         \* cycles whose requestAnimationFrame callback is queued
    debounceTimer,    \* the variable debounceTimer (0: null)
    timers,           \* the pending setTimeout timers: [id, remaining]
    currentRenderId,  \* MermaidRenderer's generation counter
    runs,             \* the mermaid.run calls in flight
    resumed,          \* history: what the last completed render call did
    estLog,           \* history: the estimator runs on the present content
    sinceInput,       \* history: the time since the last input event, the debounced
                      \* updatePreview calls since, and whether the burst it ends
                      \* has one event or more (burst = 1 or 2)
    loading,          \* showLoading: the overlay is shown and the export button disabled
    exports,          \* the handleExport calls: where each is, and what it has done
    renderLog,        \* history: the render() calls on the present content
    returned          \* history: the last call of a function of the program that
                      \* has no effect but its result: [fn, args, result]

vars ==
    << booted, hung, mermaidLoaded, markdown, form, mermaidEnabled, preview, cycles,
       rafQueue, debounceTimer, timers, currentRenderId, runs, resumed, estLog,
       sinceInput, loading, exports, renderLog, returned >>

\* What the preview and the estimator leave alone.
exportVars == << loading, exports, renderLog, returned >>

\* ------------------------------------------------------------------------
\* Bounds of the model
\* ------------------------------------------------------------------------

\* The updatePreview calls of one run of the model.
MaxUpdates == 2

\* The handleExport calls of one run of the model.
MaxExports == 2

\* The render() calls a client makes on one content.
MaxRenders == 3

\* The lines of a text handed to the parser on its own.
MaxLines == 3

\* The pieces of a header template.
MaxTemplate == 3

\* ------------------------------------------------------------------------
\* MermaidRenderer and the diagram engine
\* ------------------------------------------------------------------------

\* A query that takes the processed diagrams too: '.mermaid'.
AllDiagrams(c) == {i \in DOMAIN c.blocks : c.blocks[i].kind = "mermaid"}

\* container.querySelectorAll('.mermaid:not([data-processed="true"])')
UnprocessedDiagrams(c) ==
    {i \in DOMAIN c.blocks : c.blocks[i].kind = "mermaid" /\ ~c.blocks[i].processed}

\* What mermaid.run({nodes}) has done to its nodes when its promise settles:
\* every node it took up is marked data-processed and holds its graphic if its
\* source is valid.  The nodes of a run whose content was replaced meanwhile
\* are no longer in the container.
EngineEffect(c, run) ==
    [c EXCEPT !.blocks =
        [i \in DOMAIN c.blocks |->
            IF run.live /\ i \in run.nodes /\ ~c.blocks[i].processed
            THEN [c.blocks[i] EXCEPT !.processed = TRUE, !.svg = c.blocks[i].valid]
            ELSE c.blocks[i]]]

\* mermaid.run rejects when one of the nodes it took up has a syntax error.
EngineRejects(c, run) ==
    IF run.live
    THEN \E i \in run.nodes : ~c.blocks[i].processed /\ ~c.blocks[i].valid
    ELSE run.bad

\* displayErrors: one annotation for every wrapper whose diagram holds no
\* graphic and which has no annotation yet.
DisplayErrors(c) ==
    [c EXCEPT !.blocks =
        [i \in DOMAIN c.blocks |->
            IF c.blocks[i].kind = "mermaid" /\ ~c.blocks[i].svg /\ c.blocks[i].errs = 0
            THEN [c.blocks[i] EXCEPT !.errs = 1]
            ELSE c.blocks[i]]]

\* `renderId !== currentRenderId` after mermaid.run resolved.
StaleAfterRun(renderId, current) == renderId # current

\* A catch block without the check.
NeverStale(renderId, current) == FALSE

\* `renderId !== currentRenderId` in the catch block.
StaleInCatch(renderId, current) == renderId # current

\* A catch block that calls displayErrors whatever showErrors is.
RenderResumeAlways(c, run, rejected, current) ==
    IF rejected /\ ~StaleInCatch(run.id, current) THEN DisplayErrors(c) ELSE c

\* The rest of render() after `await mermaid.run`: the container it leaves.
RenderResume(c, run, rejected, current) ==
    IF rejected /\ ~StaleInCatch(run.id, current) /\ run.showErrors
    THEN DisplayErrors(c)
    ELSE c

\* The value render() returns after `await mermaid.run`.
RenderReturns(run, rejected, current) ==
    IF rejected THEN FALSE ELSE ~StaleAfterRun(run.id, current)

NoResume ==
    [id |-> 0, stale |-> FALSE, rejected |-> FALSE, showErrors |-> FALSE,
     changed |-> FALSE, ret |-> FALSE]

\* ------------------------------------------------------------------------
\* The preview cycle: updatePreview
\* ------------------------------------------------------------------------

DEBOUNCE_DELAY == 300

\* The clock of the model advances in steps of a third of the debounce delay.
TickMs == DEBOUNCE_DELAY \div 3

CycleIds == 1..MaxUpdates

DefaultForm ==
    [paperSize |-> "a4", orientation |-> "portrait", marginTop |-> "10",
     marginBottom |-> "10", renderMermaid |-> TRUE]

IdleCycle == [pc |-> "idle", settings |-> GetSettings(DefaultForm), fresh |-> FALSE]

EmptyContainer == [blocks |-> <<>>, appended |-> <<>>]

\* The updatePreview calls made so far.
Started == Cardinality({c \in CycleIds : cycles[c].pc # "idle"})

DoneCycle == [pc |-> "done", settings |-> GetSettings(DefaultForm), fresh |-> FALSE]

\* updatePreview() up to its first suspension, with the editor text md, the
\* form f and the parser flag `enabled`: the content is replaced, the diagram
\* overlay is called, and the cycle either awaits the engine or has queued its
\* animation-frame callback.
UpdatePreview(md, f, enabled) ==
    /\ Started < MaxUpdates
    /\ LET id       == Started + 1
           settings == GetSettings(f)
           content  == [blocks |-> Parse(md, enabled), appended |-> <<>>]
           nodes    == UnprocessedDiagrams(content)
           calls    == settings.renderMermaid /\ mermaidLoaded /\ nodes # {}
           stalled  == [c \in CycleIds |-> [cycles[c] EXCEPT !.fresh = FALSE]]
           detached == {IF r.export = 0 THEN [r EXCEPT !.live = FALSE] ELSE r : r \in runs}
       IN  /\ preview' = content
           /\ estLog' = <<>>
           /\ IF calls
              THEN /\ currentRenderId' = currentRenderId + 1
                   /\ runs' = detached \cup
                        {[id |-> currentRenderId + 1, nodes |-> nodes, live |-> TRUE,
                          bad |-> \E i \in nodes : ~content.blocks[i].valid,
                          showErrors |-> TRUE, caller |-> id, export |-> 0]}
                   /\ cycles' = [stalled EXCEPT ![id] =
                        [pc |-> "await", settings |-> settings, fresh |-> TRUE]]
                   /\ rafQueue' = rafQueue
              ELSE /\ currentRenderId' = currentRenderId
                   /\ runs' = detached
                   /\ cycles' = [stalled EXCEPT ![id] =
                        [pc |-> "raf", settings |-> settings, fresh |-> TRUE]]
                   /\ rafQueue' = Append(rafQueue, id)
    /\ resumed' = NoResume
    /\ UNCHANGED <<hung, mermaidLoaded, exportVars>>

Alive == booted /\ ~hung

NoInput == [active |-> FALSE, elapsed |-> 0, updates |-> 0, burst |-> 0]

\* No timer is due: a due timer fires before anything else happens.
NoTimerDue == \A t \in timers : t.remaining > 0

\* app.js init(): the modules are initialised and updatePreview() is called.
AppInit ==
    /\ ~booted
    /\ booted' = TRUE
    /\ UpdatePreview(markdown, form, mermaidEnabled)
    /\ UNCHANGED <<markdown, form, mermaidEnabled, debounceTimer, timers, sinceInput>>

\* A handler that does not clear the timer it replaces.
KeepTimers(ts, id) == ts

\* clearTimeout(id)
ClearTimeout(ts, id) == {t \in ts : t.id # id}

\* setTimeout never hands out the id of a pending timer nor the last one used.
NewTimerId(ts) ==
    CHOOSE i \in 1..(Cardinality(ts) + 2) :
        /\ i # debounceTimer
        /\ \A t \in ts : t.id # i

\* handleMarkdownInput: the user has changed the editor text to md.
HandleMarkdownInput(md) ==
    /\ Alive /\ NoTimerDue
    /\ md # markdown
    /\ markdown' = md
    /\ LET cleared == ClearTimeout(timers, debounceTimer)
           id      == NewTimerId(cleared)
       IN  /\ timers' = cleared \cup {[id |-> id, remaining |-> DEBOUNCE_DELAY]}
           /\ debounceTimer' = id
    /\ sinceInput' = [active |-> TRUE, elapsed |-> 0, updates |-> 0,
                      burst |-> IF sinceInput.active /\ sinceInput.elapsed < DEBOUNCE_DELAY
                                THEN 2 ELSE 1]
    /\ resumed' = NoResume
    /\ UNCHANGED <<booted, hung, mermaidLoaded, form, mermaidEnabled, preview, cycles,
                   rafQueue, currentRenderId, runs, estLog, exportVars>>

\* The debounce timer fires: updatePreview().
DebounceFire ==
    /\ Alive
    /\ \E t \in timers :
        /\ t.remaining = 0
        /\ timers' = timers \ {t}
    /\ UpdatePreview(markdown, form, mermaidEnabled)
    /\ sinceInput' = [sinceInput EXCEPT !.updates = @ + 1]
    /\ UNCHANGED <<booted, markdown, form, mermaidEnabled, debounceTimer>>

\* Time passes.
Tick ==
    /\ Alive /\ NoTimerDue
    /\ timers # {} \/ sinceInput.active
    /\ timers' = {[t EXCEPT !.remaining = @ - TickMs] : t \in timers}
    /\ sinceInput' = IF sinceInput.elapsed <= DEBOUNCE_DELAY
                     THEN [sinceInput EXCEPT !.elapsed = @ + TickMs]
                     ELSE NoInput
    /\ resumed' = NoResume
    /\ UNCHANGED <<booted, hung, mermaidLoaded, markdown, form, mermaidEnabled, preview,
                   cycles, rafQueue, debounceTimer, currentRenderId, runs, estLog,
                   exportVars>>

\* The margin texts and paper sizes the user enters in this model.
EditedMargins == {"10", "287"}

EditedPaperSizes == {"a4", "a5"}

\* A settings field whose listener is updatePreview has changed.
SettingChanged(f) ==
    /\ Alive /\ NoTimerDue
    /\ form' = f
    /\ UpdatePreview(markdown, f, mermaidEnabled)
    /\ UNCHANGED <<booted, markdown, mermaidEnabled, debounceTimer, timers, sinceInput>>

\* 'input' on the top margin field.
ChangeMarginTop(text) ==
    /\ text # form.marginTop
    /\ SettingChanged([form EXCEPT !.marginTop = text])

\* 'change' on the paper size field.
ChangePaperSize(size) ==
    /\ size # form.paperSize
    /\ SettingChanged([form EXCEPT !.paperSize = size])

\* 'change' on the print-background box, 'input' on a header or footer
\* template: updatePreview with the geometry as it was.
ChangeOtherSetting == SettingChanged(form)

\* A toggle that leaves the parser's flag as it was.
ToggleBoxOnly == SettingChanged([form EXCEPT !.renderMermaid = ~@])

\* handleMermaidToggle: the box was toggled.
HandleMermaidToggle ==
    /\ Alive /\ NoTimerDue
    /\ form' = [form EXCEPT !.renderMermaid = ~@]
    /\ mermaidEnabled' = ~form.renderMermaid
    /\ UpdatePreview(markdown, form', mermaidEnabled')
    /\ UNCHANGED <<booted, markdown, debounceTimer, timers, sinceInput>>

\* A render() that lets the engine's rejection through: the updatePreview
\* that awaited it ends there.
EngineSettleUncaught(r) ==
    /\ Alive /\ NoTimerDue
    /\ r \in runs
    /\ r.export = 0
    /\ LET rejected == EngineRejects(preview, r)
           drawn    == EngineEffect(preview, r)
       IN  /\ preview' = drawn
           /\ resumed' = [id |-> r.id, stale |-> r.id # currentRenderId,
                          rejected |-> rejected, showErrors |-> r.showErrors,
                          changed |-> FALSE,
                          ret |-> RenderReturns(r, rejected, currentRenderId)]
           /\ cycles' = [cycles EXCEPT ![r.caller].pc = IF rejected THEN "done" ELSE "raf"]
           /\ rafQueue' = IF rejected THEN rafQueue ELSE Append(rafQueue, r.caller)
    /\ runs' = runs \ {r}
    /\ UNCHANGED <<booted, hung, mermaidLoaded, markdown, form, mermaidEnabled,
                   debounceTimer, timers, currentRenderId, estLog, sinceInput,
                   exportVars>>

\* mermaid.run of the run r settles, render() goes on to its return, and the
\* updatePreview that awaited it queues its animation-frame callback.
EngineSettle(r) ==
    /\ Alive /\ NoTimerDue
    /\ r \in runs
    /\ r.export = 0
    /\ LET rejected == EngineRejects(preview, r)
           drawn    == EngineEffect(preview, r)
           left     == RenderResume(drawn, r, rejected, currentRenderId)
       IN  /\ preview' = left
           /\ resumed' = [id |-> r.id, stale |-> r.id # currentRenderId,
                          rejected |-> rejected, showErrors |-> r.showErrors,
                          changed |-> left # drawn,
                          ret |-> RenderReturns(r, rejected, currentRenderId)]
    /\ runs' = runs \ {r}
    /\ cycles' = [cycles EXCEPT ![r.caller].pc = "raf"]
    /\ rafQueue' = Append(rafQueue, r.caller)
    /\ UNCHANGED <<booted, hung, mermaidLoaded, markdown, form, mermaidEnabled,
                   debounceTimer, timers, currentRenderId, estLog, sinceInput,
                   exportVars>>

\* One estimator run, as the history keeps it.
EstEntry(cycle, before, after) ==
    [own      |-> cycle.fresh,
     settings |-> cycle.settings,
     content  |-> SumHeights(before.blocks),
     measured |-> MeasuredHeight([before EXCEPT !.appended =
                                     SelectSeq(before.appended, IsNotAutoPageBreak)]),
     appended |-> after.appended]

\* A frame that runs only the callback queued last.
RunLastCallback(queue, c, log) ==
    IF queue = <<>> THEN [container |-> c, log |-> log, hung |-> FALSE]
    ELSE LET cycle == cycles[queue[Len(queue)]]
         IN  IF EstimatorHangs(c, cycle.settings)
             THEN [container |-> c, log |-> log, hung |-> TRUE]
             ELSE LET after == AddPageBreakIndicators(c, cycle.settings)
                  IN  [container |-> after, log |-> Append(log, EstEntry(cycle, c, after)),
                       hung |-> FALSE]

\* The animation-frame callbacks of one frame, in the order they were queued:
\* each runs addPageBreakIndicators with the settings of its cycle.
RECURSIVE RunCallbacks(_, _, _)
RunCallbacks(queue, c, log) ==
    IF queue = <<>> THEN [container |-> c, log |-> log, hung |-> FALSE]
    ELSE LET cycle == cycles[Head(queue)]
         IN  IF EstimatorHangs(c, cycle.settings)
             THEN [container |-> c, log |-> log, hung |-> TRUE]
             ELSE LET after == AddPageBreakIndicators(c, cycle.settings)
                  IN  RunCallbacks(Tail(queue), after,
                                   Append(log, EstEntry(cycle, c, after)))

\* An animation frame.
Frame ==
    /\ Alive /\ NoTimerDue
    /\ rafQueue # <<>>
    /\ LET done == RunCallbacks(rafQueue, preview, estLog)
       IN  /\ preview' = done.container
           /\ estLog' = done.log
           /\ hung' = done.hung
    /\ cycles' = [c \in CycleIds |-> IF cycles[c].pc = "raf" THEN DoneCycle ELSE cycles[c]]
    /\ rafQueue' = <<>>
    /\ resumed' = NoResume
    /\ UNCHANGED <<booted, mermaidLoaded, markdown, form, mermaidEnabled, debounceTimer,
                   timers, currentRenderId, runs, sinceInput, exportVars>>

\* ------------------------------------------------------------------------
\* The export requests: handleExport and PDFGenerator.generate
\* ------------------------------------------------------------------------

ExportIds == 1..MaxExports

\* One handleExport call.  pc is where it is suspended: "fonts" (awaiting
\* document.fonts.ready), "renderWait" and "renderExtra" (the frames of
\* waitForRender), "engine" (awaiting MermaidRenderer.render), "svgWait" and
\* "svgExtra" (the frames of waitForMermaidSvgs), "load" (awaiting the iframe),
\* and "returned".  The other fields are what it has done so far.
IdleExport ==
    [pc         |-> "idle",
     blank      |-> FALSE,       \* it found the markdown blank
     busy       |-> FALSE,       \* it has called showLoading(true)
     alerts     |-> 0,           \* the alert() calls it has made
     settings   |-> GetSettings(DefaultForm),
     container  |-> EmptyContainer,
     attached   |-> FALSE,       \* its container is a child of document.body
     waited     |-> 0,           \* ms since the startTime of its present wait
     warnRender |-> FALSE,       \* waitForRender has logged its warning
     warnSvgs   |-> FALSE,       \* waitForMermaidSvgs has logged its warning
     svgWaited  |-> 0,           \* ms waitForMermaidSvgs had waited when it ended
     extracted  |-> FALSE,       \* finalContent has been read
     markup     |-> EmptyContainer, \* finalContent
     iframe     |-> "none",      \* the print iframe: none, attached, removed
     printCalls |-> 0,           \* the print() calls on its iframe
     cleanup    |-> "none",      \* how cleanup was registered: handler or timer
     dialog     |-> "none",      \* the afterprint event: to come (open) or not
     outcome    |-> "none"]      \* generate: none yet, resolved, rejected

\* No such call has been made.
NoCall == [fn |-> "none", args |-> <<>>, result |-> <<>>]

\* The handleExport calls made so far.
Requested == Cardinality({e \in ExportIds : exports[e].pc # "idle"})

Init ==
    /\ booted = FALSE
    /\ hung = FALSE
    /\ mermaidLoaded \in BOOLEAN
    /\ markdown \in Docs
    /\ form = DefaultForm
    /\ mermaidEnabled = TRUE
    /\ preview = EmptyContainer
    /\ cycles = [c \in CycleIds |-> IdleCycle]
    /\ rafQueue = <<>>
    /\ debounceTimer = 0
    /\ timers = {}
    /\ currentRenderId = 0
    /\ runs = {}
    /\ resumed = NoResume
    /\ estLog = <<>>
    /\ sinceInput = NoInput
    /\ loading = FALSE
    /\ exports = [e \in ExportIds |-> IdleExport]
    /\ renderLog = <<>>
    /\ returned = NoCall

Next ==
    \/ AppInit
    \/ \E md \in Docs : HandleMarkdownInput(md)
    \/ DebounceFire
    \/ Tick
    \/ \E text \in EditedMargins : ChangeMarginTop(text)
    \/ \E size \in EditedPaperSizes : ChangePaperSize(size)
    \/ ChangeOtherSetting
    \/ HandleMermaidToggle
    \/ \E r \in runs : EngineSettle(r)
    \/ Frame

Spec == Init /\ [][Next]_vars

\* ------------------------------------------------------------------------
\* The estimator on its own: addPageBreakIndicators(getSettings()) applied
\* once to a container whose content measures h
\* ------------------------------------------------------------------------

\* Measured content heights in pixels: none, one pixel, and the heights next
\* to the first and second page boundary of A4 with 10 mm margins (1046.93 px
\* and 2093.86 px).
MeasuredPixels == {0, 1, 1046, 1047, 2093, 2094, 2100, 3000}

\* The content heights tried with the form f: the pixel heights, and exactly
\* one page height and two and a half page heights of f.
EstimateHeights(f) ==
    LET pmm == PageHeightMm10(GetSettings(f))
    IN  {<<a, 0>> : a \in MeasuredPixels}
        \cup (IF pmm > 0 THEN {<<0, pmm>>} ELSE {})
        \cup (IF pmm > 0 /\ pmm % 2 = 0 THEN {<<0, (5 * pmm) \div 2>>} ELSE {})

ContentOfHeight(h) ==
    [blocks |-> IF IsZeroPx(h) THEN <<>>
                ELSE << [kind |-> "p", h |-> h, hsvg |-> 0, herr |-> 0, valid |-> TRUE,
                         processed |-> FALSE, svg |-> FALSE, errs |-> 0] >>,
     appended |-> <<>>]

InitEstimate ==
    /\ booted = TRUE
    /\ hung = FALSE
    /\ mermaidLoaded = TRUE
    /\ markdown = <<"para">>
    /\ form \in [paperSize : PaperSizes, orientation : {"portrait", "landscape"},
                 marginTop : MarginTexts, marginBottom : {"10", "290"},
                 renderMermaid : {TRUE}]
    /\ mermaidEnabled = TRUE
    /\ \E h \in EstimateHeights(form) : preview = ContentOfHeight(h)
    /\ cycles = [c \in CycleIds |-> IdleCycle]
    /\ rafQueue = <<>>
    /\ debounceTimer = 0
    /\ timers = {}
    /\ currentRenderId = 0
    /\ runs = {}
    /\ resumed = NoResume
    /\ estLog = <<>>
    /\ sinceInput = NoInput
    /\ loading = FALSE
    /\ exports = [e \in ExportIds |-> IdleExport]
    /\ renderLog = <<>>
    /\ returned = NoCall

\* addPageBreakIndicators(getSettings()), once.
Estimate ==
    /\ ~hung
    /\ estLog = <<>>
    /\ LET settings == GetSettings(form)
           after    == AddPageBreakIndicators(preview, settings)
       IN  IF EstimatorHangs(preview, settings)
           THEN /\ hung' = TRUE
                /\ UNCHANGED <<preview, estLog>>
           ELSE /\ preview' = after
                /\ estLog' = << EstEntry([IdleCycle EXCEPT !.settings = settings, !.fresh = TRUE],
                                         preview, after) >>
                /\ hung' = FALSE
    /\ UNCHANGED <<booted, mermaidLoaded, markdown, form, mermaidEnabled, cycles, rafQueue,
                   debounceTimer, timers, currentRenderId, runs, resumed, sinceInput,
                   exportVars>>

NextEstimate == Estimate

SpecEstimate == InitEstimate /\ [][NextEstimate]_vars

\* ------------------------------------------------------------------------
\* The export path: handleExport, PDFGenerator.generate and its two waits
\* ------------------------------------------------------------------------

\* waitForRender(container, maxWait = 3000)
RENDER_MAX_WAIT == 3000

\* waitForMermaidSvgs(container, 5000)
SVG_MAX_WAIT == 5000

\* setTimeout(resolve, 500) beside iframe.onload
LOAD_TIMEOUT == 500

\* setTimeout(cleanup, 1000)
CLEANUP_DELAY == 1000

\* The clock of the export advances in steps of two load timeouts.
ExportTickMs == 2 * LOAD_TIMEOUT

\* The editor texts at page load when an export is followed: those of Docs, a
\* blank text, and a text that renders to nothing but a manual page break.
ExportDocs == Docs \cup { <<"space">>, <<"pagebreak">>, <<"para", "pagebreak", "para">> }

\* `container.offsetHeight > 0 && container.offsetWidth > 0`: the width is
\* the paper width, the height that of the content.
HasDimensions(c) == ~IsZeroPx(SumHeights(c.blocks))

\* container.querySelectorAll('.mermaid-container')
MermaidContainers(c) == {i \in DOMAIN c.blocks : c.blocks[i].kind = "mermaid"}

\* allReady: every wrapper holds a graphic (a graphic that is laid out has
\* width and height).
AllSvgsReady(c) == \A i \in MermaidContainers(c) : c.blocks[i].svg

\* A polling loop without its time bound.
NeverExpires(waited, maxWait) == FALSE

\* The loop condition `Date.now() - startTime < maxWait` has become false.
WaitExpired(waited, maxWait) == ~(waited < maxWait)

\* A generate that leaves its container in the document.
KeepChild(x) == x

\* document.body.removeChild(container)
RemoveChild(x) == [x EXCEPT !.attached = FALSE]

\* generate from `const finalContent = container.innerHTML` to its await on
\* the iframe: the markup is read, the container removed, the iframe appended
\* and written.
ExtractWithPreview(x) ==
    [x EXCEPT !.extracted = TRUE,
              !.markup = [x.container EXCEPT !.appended = preview.appended],
              !.attached = FALSE, !.iframe = "attached", !.pc = "load", !.waited = 0]

Extract(x) ==
    [RemoveChild([x EXCEPT !.extracted = TRUE, !.markup = x.container])
        EXCEPT !.iframe = "attached", !.pc = "load", !.waited = 0]

\* waitForMermaidSvgs up to its first suspension; generate goes on at once when
\* the container has no diagram wrapper.
EnterSvgWait(x) ==
    IF MermaidContainers(x.container) = {}
    THEN Extract(x)
    ELSE [x EXCEPT !.pc = "svgWait", !.waited = 0]

\* generate after `await waitForRender(container)` for the export e in the
\* state x: MermaidRenderer.render(container, {showErrors: false}) up to its
\* suspension, and what follows when it returns at once.
AfterWaitForRender(e, x) ==
    LET nodes == UnprocessedDiagrams(x.container)
    IN  IF x.settings.renderMermaid /\ mermaidLoaded /\ nodes # {}
        THEN /\ currentRenderId' = currentRenderId + 1
             /\ runs' = runs \cup
                  {[id |-> currentRenderId + 1, nodes |-> nodes, live |-> TRUE,
                    bad |-> \E i \in nodes : ~x.container.blocks[i].valid,
                    showErrors |-> FALSE, caller |-> 0, export |-> e]}
             /\ exports' = [exports EXCEPT ![e] = [x EXCEPT !.pc = "engine"]]
        ELSE /\ UNCHANGED <<currentRenderId, runs>>
             /\ exports' = [exports EXCEPT ![e] =
                  IF x.settings.renderMermaid THEN EnterSvgWait(x) ELSE Extract(x)]

\* handleExport up to its first suspension.
StartExport ==
    /\ Alive
    /\ Requested < MaxExports
    /\ LET e == Requested + 1
       IN  IF IsBlank(markdown)
           THEN /\ exports' = [exports EXCEPT ![e] =
                     [IdleExport EXCEPT !.pc = "returned", !.blank = TRUE, !.alerts = 1]]
                /\ loading' = loading
           ELSE /\ exports' = [exports EXCEPT ![e] =
                     [IdleExport EXCEPT
                        !.pc = "fonts", !.busy = TRUE,
                        !.settings = GetSettings(form),
                        !.container = [blocks |-> Parse(markdown, mermaidEnabled),
                                       appended |-> <<>>],
                        !.attached = TRUE]]
                /\ loading' = TRUE
    /\ resumed' = NoResume
    /\ UNCHANGED <<booted, hung, mermaidLoaded, markdown, form, mermaidEnabled, preview,
                   cycles, rafQueue, debounceTimer, timers, currentRenderId, runs, estLog,
                   sinceInput, returned, renderLog>>

\* 'click' on the export button, which showLoading(true) disables.
ExportClick == ~loading /\ StartExport

\* handleKeydown with Ctrl/Cmd+S.
HandleKeydown == StartExport

\* document.fonts.ready resolves: waitForRender takes its startTime and awaits
\* its first frame.
FontsReady(e) ==
    /\ Alive
    /\ exports[e].pc = "fonts"
    /\ exports' = [exports EXCEPT ![e].pc = "renderWait", ![e].waited = 0]
    /\ resumed' = NoResume
    /\ UNCHANGED <<booted, hung, mermaidLoaded, markdown, form, mermaidEnabled, preview,
                   cycles, rafQueue, debounceTimer, timers, currentRenderId, runs, estLog,
                   sinceInput, returned, loading, renderLog>>

\* The animation frame the export e awaits.  A frame after which a polling
\* loop finds nothing ready and its time not over leaves the export where it is.
ExportFrame(e) ==
    /\ Alive
    /\ LET x == exports[e]
       IN  \/ /\ x.pc = "renderWait" /\ HasDimensions(x.container)
              /\ exports' = [exports EXCEPT ![e].pc = "renderExtra"]
              /\ UNCHANGED <<currentRenderId, runs>>
           \/ /\ x.pc = "renderWait" /\ ~HasDimensions(x.container)
              /\ WaitExpired(x.waited, RENDER_MAX_WAIT)
              /\ AfterWaitForRender(e, [x EXCEPT !.warnRender = TRUE])
           \/ /\ x.pc = "renderExtra"
              /\ AfterWaitForRender(e, x)
           \/ /\ x.pc = "svgWait" /\ AllSvgsReady(x.container)
              /\ exports' = [exports EXCEPT ![e].pc = "svgExtra"]
              /\ UNCHANGED <<currentRenderId, runs>>
           \/ /\ x.pc = "svgWait" /\ ~AllSvgsReady(x.container)
              /\ WaitExpired(x.waited, SVG_MAX_WAIT)
              /\ exports' = [exports EXCEPT ![e] =
                    Extract([x EXCEPT !.warnSvgs = TRUE, !.svgWaited = x.waited])]
              /\ UNCHANGED <<currentRenderId, runs>>
           \/ /\ x.pc = "svgExtra"
              /\ exports' = [exports EXCEPT ![e] = Extract([x EXCEPT !.svgWaited = x.waited])]
              /\ UNCHANGED <<currentRenderId, runs>>
    /\ resumed' = NoResume
    /\ UNCHANGED <<booted, hung, mermaidLoaded, markdown, form, mermaidEnabled, preview,
                   cycles, rafQueue, debounceTimer, timers, estLog, sinceInput, returned, loading,
                   renderLog>>

\* mermaid.run of an export's render call settles: render() goes on to its
\* return and generate to waitForMermaidSvgs.
ExportEngineSettle(r) ==
    /\ Alive
    /\ r \in runs
    /\ r.export # 0
    /\ LET x        == exports[r.export]
           rejected == EngineRejects(x.container, r)
           drawn    == EngineEffect(x.container, r)
           left     == RenderResume(drawn, r, rejected, currentRenderId)
       IN  /\ exports' = [exports EXCEPT ![r.export] = EnterSvgWait([x EXCEPT !.container = left])]
           /\ resumed' = [id |-> r.id, stale |-> r.id # currentRenderId,
                          rejected |-> rejected, showErrors |-> r.showErrors,
                          changed |-> left # drawn,
                          ret |-> RenderReturns(r, rejected, currentRenderId)]
    /\ runs' = runs \ {r}
    /\ UNCHANGED <<booted, hung, mermaidLoaded, markdown, form, mermaidEnabled, preview,
                   cycles, rafQueue, debounceTimer, timers, currentRenderId, estLog,
                   sinceInput, returned, loading, renderLog>>

\* A handleExport whose showLoading(false) is the last statement of its try
\* block.
LoadingAfterTry(was, rejected) == IF rejected THEN was ELSE FALSE

\* The busy state handleExport leaves: showLoading(false) in its finally block.
LoadingAfter(was, rejected) == FALSE

\* generate after its await on the iframe, and handleExport after its await
\* on generate.  print() either throws or shows the dialog; cleanup is
\* registered as the afterprint handler where the window has one, and then
\* the dialog may have been closed already, afterprint fired, when print()
\* returned; else it is registered with a timer.
PrintHandoff(e) ==
    /\ Alive
    /\ \E how \in {"throws", "handler", "late", "timer"} :
        exports' = [exports EXCEPT ![e] =
            IF how = "throws"
            THEN [@ EXCEPT !.pc = "returned", !.printCalls = 1, !.outcome = "rejected",
                           !.alerts = @ + 1]
            ELSE [@ EXCEPT !.pc = "returned", !.printCalls = 1, !.outcome = "resolved",
                           !.dialog = IF how = "handler" THEN "open" ELSE "closed",
                           !.cleanup = IF how = "timer" THEN "timer" ELSE "handler",
                           !.waited = 0]]
    /\ loading' = LoadingAfter(loading, exports'[e].outcome = "rejected")
    /\ resumed' = NoResume
    /\ UNCHANGED <<booted, hung, mermaidLoaded, markdown, form, mermaidEnabled, preview,
                   cycles, rafQueue, debounceTimer, timers, currentRenderId, runs, estLog,
                   sinceInput, returned, renderLog>>

\* 'load' of the iframe.
IframeOnload(e) ==
    /\ exports[e].pc = "load"
    /\ PrintHandoff(e)

\* The 500 ms timer beside iframe.onload fires first.
LoadTimeout(e) ==
    /\ exports[e].pc = "load"
    /\ WaitExpired(exports[e].waited, LOAD_TIMEOUT)
    /\ PrintHandoff(e)

\* 'afterprint' on the iframe's window: cleanup, if it is the handler.
AfterPrint(e) ==
    /\ Alive
    /\ exports[e].dialog = "open"
    /\ exports' = [exports EXCEPT
            ![e].dialog = "closed",
            ![e].iframe = IF exports[e].cleanup = "handler" THEN "removed" ELSE @]
    /\ resumed' = NoResume
    /\ UNCHANGED <<booted, hung, mermaidLoaded, markdown, form, mermaidEnabled, preview,
                   cycles, rafQueue, debounceTimer, timers, currentRenderId, runs, estLog,
                   sinceInput, returned, loading, renderLog>>

\* The cleanup timer fires.
CleanupTimeout(e) ==
    /\ Alive
    /\ exports[e].cleanup = "timer"
    /\ exports[e].iframe = "attached"
    /\ WaitExpired(exports[e].waited, CLEANUP_DELAY)
    /\ exports' = [exports EXCEPT ![e].iframe = "removed"]
    /\ resumed' = NoResume
    /\ UNCHANGED <<booted, hung, mermaidLoaded, markdown, form, mermaidEnabled, preview,
                   cycles, rafQueue, debounceTimer, timers, currentRenderId, runs, estLog,
                   sinceInput, returned, loading, renderLog>>

\* The export x is in a wait whose end depends on the clock: a polling loop
\* that has found nothing ready, or a pending timer.
Timed(x) ==
    \/ x.pc = "renderWait" /\ ~HasDimensions(x.container)
    \/ x.pc = "svgWait" /\ ~AllSvgsReady(x.container)
    \/ x.pc = "load"
    \/ x.cleanup = "timer" /\ x.iframe = "attached"

\* The time after which the wait of x is over.
WaitLimit(x) ==
    CASE x.pc = "renderWait" -> RENDER_MAX_WAIT
      [] x.pc = "svgWait"    -> SVG_MAX_WAIT
      [] x.pc = "load"       -> LOAD_TIMEOUT
      [] OTHER               -> CLEANUP_DELAY

\* Time passes for the exports: `waited` is the time since the start of the
\* wait, or the limit of the wait once that is over.
ExportTick ==
    /\ Alive
    /\ \E e \in ExportIds : Timed(exports[e]) /\ exports[e].waited < WaitLimit(exports[e])
    /\ exports' = [e \in ExportIds |->
            IF Timed(exports[e])
            THEN [exports[e] EXCEPT !.waited =
                    IF @ + ExportTickMs < WaitLimit(exports[e])
                    THEN @ + ExportTickMs ELSE WaitLimit(exports[e])]
            ELSE exports[e]]
    /\ resumed' = NoResume
    /\ UNCHANGED <<booted, hung, mermaidLoaded, markdown, form, mermaidEnabled, preview,
                   cycles, rafQueue, debounceTimer, timers, currentRenderId, runs, estLog,
                   sinceInput, returned, loading, renderLog>>

InitExport ==
    /\ booted = FALSE
    /\ hung = FALSE
    /\ mermaidLoaded \in BOOLEAN
    /\ markdown \in ExportDocs
    /\ form = DefaultForm
    /\ mermaidEnabled = TRUE
    /\ preview = EmptyContainer
    /\ cycles = [c \in CycleIds |-> IdleCycle]
    /\ rafQueue = <<>>
    /\ debounceTimer = 0
    /\ timers = {}
    /\ currentRenderId = 0
    /\ runs = {}
    /\ resumed = NoResume
    /\ estLog = <<>>
    /\ sinceInput = NoInput
    /\ loading = FALSE
    /\ exports = [e \in ExportIds |-> IdleExport]
    /\ renderLog = <<>>
    /\ returned = NoCall

\* The page is loaded and exports are requested; nothing is edited.
NextExport ==
    \/ AppInit
    \/ \E r \in runs : EngineSettle(r)
    \/ Frame
    \/ ExportClick
    \/ HandleKeydown
    \/ \E e \in ExportIds : FontsReady(e)
    \/ \E e \in ExportIds : ExportFrame(e)
    \/ \E r \in runs : ExportEngineSettle(r)
    \/ \E e \in ExportIds : IframeOnload(e)
    \/ \E e \in ExportIds : LoadTimeout(e)
    \/ \E e \in ExportIds : AfterPrint(e)
    \/ \E e \in ExportIds : CleanupTimeout(e)
    \/ ExportTick

SpecExport == InitExport /\ [][NextExport]_vars

\* A step of the clock, a frame an export awaits, or the timer beside
\* iframe.onload firing.
ClockOrFrame ==
    \/ ExportTick
    \/ \E e \in ExportIds : ExportFrame(e)
    \/ \E e \in ExportIds : LoadTimeout(e)

\* The same, with animation frames that keep firing and a clock that
\* advances: while an export awaits a frame, reads the clock in a wait or has
\* a timer due, one of these happens.
SpecExportFair == SpecExport /\ WF_vars(ClockOrFrame)

\* A cleanup timer that is due fires.
TimerFires == \E e \in ExportIds : CleanupTimeout(e)

\* The same, where the timers set with setTimeout(cleanup, 1000) fire too.
SpecExportTimers == SpecExportFair /\ WF_vars(TimerFires)

\* ------------------------------------------------------------------------
\* MermaidRenderer as its callers may use it: render, clearErrors and reset
\* on one container, whose content the caller may replace
\* ------------------------------------------------------------------------

\* The texts the caller renders into the container.
RenderDocs == { <<"diagram">>, <<"baddiagram">>, <<"diagram", "baddiagram">> }

\* clearErrors(container)
ClearErrors(c) ==
    [c EXCEPT !.blocks = [i \in DOMAIN c.blocks |-> [c.blocks[i] EXCEPT !.errs = 0]]]

\* A reset that leaves the error annotations.
ResetMarkersOnly(c) ==
    [c EXCEPT !.blocks =
        [i \in DOMAIN c.blocks |->
            IF c.blocks[i].kind = "mermaid"
            THEN [c.blocks[i] EXCEPT !.processed = FALSE, !.svg = FALSE]
            ELSE c.blocks[i]]]

\* reset(container)
Reset(c) ==
    ClearErrors([c EXCEPT !.blocks =
        [i \in DOMAIN c.blocks |->
            IF c.blocks[i].kind = "mermaid"
            THEN [c.blocks[i] EXCEPT !.processed = FALSE, !.svg = FALSE]
            ELSE c.blocks[i]]])

\* render(container, {showErrors}) up to its suspension or, when it does not
\* call the engine, its return.  The history keeps whether the call invoked
\* the engine, whether it has returned, and whether it follows a call on the
\* same content with every earlier call returned.
RenderCall(showErrors) ==
    /\ Len(renderLog) < MaxRenders
    /\ currentRenderId < MaxRenders
    /\ LET n     == Len(renderLog) + 1
           nodes == UnprocessedDiagrams(preview)
           calls == mermaidLoaded /\ nodes # {}
       IN  /\ renderLog' = Append(renderLog,
                [engine |-> calls, returned |-> ~calls, showErrors |-> showErrors,
                 follows |-> n > 1 /\ \A i \in DOMAIN renderLog : renderLog[i].returned])
           /\ IF calls
              THEN /\ currentRenderId' = currentRenderId + 1
                   /\ runs' = runs \cup
                        {[id |-> currentRenderId + 1, nodes |-> nodes, live |-> TRUE,
                          bad |-> \E i \in nodes : ~preview.blocks[i].valid,
                          showErrors |-> showErrors, caller |-> n, export |-> 0]}
              ELSE UNCHANGED <<currentRenderId, runs>>
    /\ resumed' = NoResume
    /\ UNCHANGED <<booted, hung, mermaidLoaded, markdown, form, mermaidEnabled, preview,
                   cycles, rafQueue, debounceTimer, timers, estLog, sinceInput, returned, loading,
                   exports>>

\* mermaid.run of the run r settles and render() goes on to its return.
RenderSettle(r) ==
    /\ r \in runs
    /\ LET rejected == EngineRejects(preview, r)
           drawn    == EngineEffect(preview, r)
           left     == RenderResume(drawn, r, rejected, currentRenderId)
       IN  /\ preview' = left
           /\ resumed' = [id |-> r.id, stale |-> r.id # currentRenderId,
                          rejected |-> rejected, showErrors |-> r.showErrors,
                          changed |-> left # drawn,
                          ret |-> RenderReturns(r, rejected, currentRenderId)]
    /\ runs' = runs \ {r}
    /\ renderLog' = IF r.caller # 0 THEN [renderLog EXCEPT ![r.caller].returned = TRUE]
                    ELSE renderLog
    /\ UNCHANGED <<booted, hung, mermaidLoaded, markdown, form, mermaidEnabled, cycles,
                   rafQueue, debounceTimer, timers, currentRenderId, estLog, sinceInput, returned,
                   loading, exports>>

\* The caller calls clearErrors(container).
ClearErrorsCall ==
    /\ preview' = ClearErrors(preview)
    /\ resumed' = NoResume
    /\ UNCHANGED <<booted, hung, mermaidLoaded, markdown, form, mermaidEnabled, cycles,
                   rafQueue, debounceTimer, timers, currentRenderId, runs, estLog,
                   sinceInput, returned, loading, exports, renderLog>>

\* The caller calls reset(container): the diagrams are as the parser left them.
\* The engine calls in flight go on; the history starts again.
ResetCall ==
    /\ preview' = Reset(preview)
    /\ runs' = {[r EXCEPT !.caller = 0] : r \in runs}
    /\ renderLog' = <<>>
    /\ resumed' = NoResume
    /\ UNCHANGED <<booted, hung, mermaidLoaded, markdown, form, mermaidEnabled, cycles,
                   rafQueue, debounceTimer, timers, currentRenderId, estLog, sinceInput, returned,
                   loading, exports>>

\* The caller replaces the content: container.innerHTML = parse(md).
SetContent(md) ==
    /\ preview' = [blocks |-> Parse(md, TRUE), appended |-> <<>>]
    /\ runs' = {[r EXCEPT !.caller = 0, !.live = FALSE] : r \in runs}
    /\ renderLog' = <<>>
    /\ resumed' = NoResume
    /\ UNCHANGED <<booted, hung, mermaidLoaded, markdown, form, mermaidEnabled, cycles,
                   rafQueue, debounceTimer, timers, currentRenderId, estLog, sinceInput, returned,
                   loading, exports>>

InitRender ==
    /\ booted = TRUE
    /\ hung = FALSE
    /\ mermaidLoaded \in BOOLEAN
    /\ markdown \in RenderDocs
    /\ form = DefaultForm
    /\ mermaidEnabled = TRUE
    /\ preview = [blocks |-> Parse(markdown, TRUE), appended |-> <<>>]
    /\ cycles = [c \in CycleIds |-> IdleCycle]
    /\ rafQueue = <<>>
    /\ debounceTimer = 0
    /\ timers = {}
    /\ currentRenderId = 0
    /\ runs = {}
    /\ resumed = NoResume
    /\ estLog = <<>>
    /\ sinceInput = NoInput
    /\ loading = FALSE
    /\ exports = [e \in ExportIds |-> IdleExport]
    /\ renderLog = <<>>
    /\ returned = NoCall

NextRender ==
    \/ \E showErrors \in BOOLEAN : RenderCall(showErrors)
    \/ \E r \in runs : RenderSettle(r)
    \/ ClearErrorsCall
    \/ ResetCall
    \/ \E md \in RenderDocs : SetContent(md)

SpecRender == InitRender /\ [][NextRender]_vars

\* ------------------------------------------------------------------------
\* The functions of the program called on their own
\* ------------------------------------------------------------------------

\* The lines of a text: the marker with and without its inner spaces, with
\* two spaces, indented, after a word and before a word; a word; nothing.
Lines ==
    { << "<!--", "sp", "pagebreak", "sp", "-->" >>,
      << "<!--", "pagebreak", "-->" >>,
      << "<!--", "sp", "pagebreak", "-->" >>,
      << "<!--", "pagebreak", "sp", "-->" >>,
      << "<!--", "sp", "sp", "pagebreak", "sp", "-->" >>,
      << "sp", "<!--", "sp", "pagebreak", "sp", "-->" >>,
      << "text", "sp", "<!--", "sp", "pagebreak", "sp", "-->" >>,
      << "<!--", "sp", "pagebreak", "sp", "-->", "text" >>,
      << "text" >>,
      << >> }

RECURSIVE JoinLines(_)
JoinLines(ls) ==
    IF Len(ls) = 1 THEN ls[1] ELSE ls[1] \o << "nl" >> \o JoinLines(Tail(ls))

\* The texts of at most MaxLines lines.
Texts == { JoinLines(ls) : ls \in UNION { [1 .. n -> Lines] : n \in 1 .. MaxLines } }

ParseInputs ==
    { [type |-> "string", value |-> t] : t \in Texts }
        \cup { [type |-> "undefined", value |-> 0], [type |-> "null", value |-> 0],
               [type |-> "number", value |-> 0], [type |-> "number", value |-> 5],
               [type |-> "object", value |-> 0] }

\* MarkdownParser.parse(v), called on its own.
ParseCall ==
    /\ returned = NoCall
    /\ \E v \in ParseInputs, raises \in BOOLEAN :
          returned' = [fn |-> "parse", args |-> v, raises |-> raises,
                       result |-> MarkdownParserParse(v, raises)]
    /\ UNCHANGED <<booted, hung, mermaidLoaded, markdown, form, mermaidEnabled, preview,
                   cycles, rafQueue, debounceTimer, timers, currentRenderId, runs, resumed,
                   estLog, sinceInput, loading, exports, renderLog>>

TemplatePieces == {"{date}", "{title}", "{pageNumber}", "{totalPages}", "sp", "w", "<"}

\* The texts of a template field, of at most MaxTemplate pieces.
Templates == UNION { [1 .. n -> TemplatePieces] : n \in 0 .. MaxTemplate }

\* The text of the first h1 of the document, trimmed ('' without one).
Titles == { <<>>, << "w" >>, << "w", "sp", "{pageNumber}" >>, << "{date}" >> }

HeaderFooterSettings ==
    [enableHeader : BOOLEAN, headerTemplate : Templates,
     enableFooter : BOOLEAN, footerTemplate : { <<>>, << "{date}" >>, << "{title}" >> }]

\* buildHeaderFooterHtml(settings, title), called on its own.
BuildHeaderFooterHtmlCall ==
    /\ returned = NoCall
    /\ \E settings \in HeaderFooterSettings, title \in Titles :
          returned' = [fn |-> "buildHeaderFooterHtml",
                       args |-> [settings |-> settings, title |-> title],
                       result |-> BuildHeaderFooterHtml(settings, title)]
    /\ UNCHANGED <<booted, hung, mermaidLoaded, markdown, form, mermaidEnabled, preview,
                   cycles, rafQueue, debounceTimer, timers, currentRenderId, runs, resumed,
                   estLog, sinceInput, loading, exports, renderLog>>

\* What render, the engine and displayErrors can have left on a diagram.
DiagramStates ==
    { [processed |-> FALSE, svg |-> FALSE, errs |-> 0],
      [processed |-> TRUE, svg |-> TRUE, errs |-> 0],
      [processed |-> TRUE, svg |-> FALSE, errs |-> 0],
      [processed |-> TRUE, svg |-> FALSE, errs |-> 1],
      [processed |-> FALSE, svg |-> FALSE, errs |-> 1] }

\* The containers reset is called on: a text of one or two blocks, rendered,
\* with its diagrams in any of these states and the estimator's elements
\* appended or not.
Containers ==
    { [blocks |->
          [i \in DOMAIN Parse(md, TRUE) |->
              IF Parse(md, TRUE)[i].kind = "mermaid"
              THEN [Parse(md, TRUE)[i] EXCEPT !.processed = st[i].processed,
                                             !.svg = st[i].svg, !.errs = st[i].errs]
              ELSE Parse(md, TRUE)[i]],
       appended |-> ap] :
        md \in { <<"baddiagram">>, <<"para", "diagram">>, <<"diagram", "baddiagram">> },
        st \in [1 .. 2 -> DiagramStates],
        ap \in { <<>>, << PageDisplay([kind |-> "num", n |-> 1]) >> } }

\* MermaidRenderer.reset(container), called on its own.
ResetOnlyCall ==
    /\ returned = NoCall
    /\ \E c \in Containers :
          returned' = [fn |-> "reset", args |-> c, result |-> Reset(c)]
    /\ UNCHANGED <<booted, hung, mermaidLoaded, markdown, form, mermaidEnabled, preview,
                   cycles, rafQueue, debounceTimer, timers, currentRenderId, runs, resumed,
                   estLog, sinceInput, loading, exports, renderLog>>

InitCalls ==
    /\ booted = FALSE
    /\ hung = FALSE
    /\ mermaidLoaded = TRUE
    /\ markdown = <<>>
    /\ form = DefaultForm
    /\ mermaidEnabled = TRUE
    /\ preview = EmptyContainer
    /\ cycles = [c \in CycleIds |-> IdleCycle]
    /\ rafQueue = <<>>
    /\ debounceTimer = 0
    /\ timers = {}
    /\ currentRenderId = 0
    /\ runs = {}
    /\ resumed = NoResume
    /\ estLog = <<>>
    /\ sinceInput = NoInput
    /\ loading = FALSE
    /\ exports = [e \in ExportIds |-> IdleExport]
    /\ renderLog = <<>>
    /\ returned = NoCall

NextCalls ==
    \/ ParseCall
    \/ BuildHeaderFooterHtmlCall
    \/ ResetOnlyCall

SpecCalls == InitCalls /\ [][NextCalls]_vars

\* ------------------------------------------------------------------------
\* Properties of the estimator
\* ------------------------------------------------------------------------

\* The automatic break markers an estimator run left, in order.
AutosOf(e) == SelectSeq(e.appended, IsAutoPageBreak)

\* totalPages of an estimator run, as its page-count display shows it.
TotalOf(e) == e.appended[Len(e.appended)].total

PageHeightOf(e) == PageHeightMm10(e.settings)

\* n = max(1, ceil(h / p)) for p > 0, said without CeilDiv: n pages cover h,
\* and n - 1 pages do not unless n = 1.
IsMaxOneCeil(n, h, pmm) ==
    /\ n >= 1
    /\ PagesCover(n, pmm, h)
    /\ n > 1 => ~PagesCover(n - 1, pmm, h)

\* C3: for every measured height h >= 0 and page height p > 0 a run of the
\* estimator computes totalPages = max(1, ceil(h / p)) and leaves totalPages - 1
\* automatic markers, the k-th at k * p and labelled "k / totalPages"; h <= p
\* gives one page and no marker, h = 2.5 p gives three pages and markers at
\* p and 2 p.
C3_EstimatorPages ==
    \A i \in DOMAIN estLog :
        LET e == estLog[i]
            p == PageHeightOf(e)
            n == TotalOf(e).n
        IN  p > 0 =>
                /\ TotalOf(e).kind = "num"
                /\ IsMaxOneCeil(n, e.measured, p)
                /\ Len(AutosOf(e)) = n - 1
                /\ \A k \in 1..(n - 1) :
                        /\ AutosOf(e)[k].top = k * p
                        /\ AutosOf(e)[k].page = k
                        /\ AutosOf(e)[k].total = TotalOf(e)
                /\ PxGE(<<0, p>>, e.measured) => (n = 1 /\ AutosOf(e) = <<>>)
                /\ (p % 2 = 0 /\ e.measured = <<0, (5 * p) \div 2>>) =>
                        (n = 3 /\ AutosOf(e)[1].top = p /\ AutosOf(e)[2].top = 2 * p)

\* C3 witness: a run on content of two and a half page heights has happened.
C3_Witness ==
    \E i \in DOMAIN estLog :
        /\ PageHeightOf(estLog[i]) > 0
        /\ PageHeightOf(estLog[i]) % 2 = 0
        /\ estLog[i].measured = <<0, (5 * PageHeightOf(estLog[i])) \div 2>>
        /\ Len(AutosOf(estLog[i])) = 2

\* An estimator run with A4, both margins 10 mm, on content 2100 px tall.
IsA4Run2100(e) ==
    /\ e.settings.paperSize = "a4"
    /\ e.settings.margins = [top |-> 100, bottom |-> 100]
    /\ e.measured = <<2100, 0>>

\* C5 as claimed: with A4 and 10 mm margins the page height is (297 - 20) mm
\* times MM_TO_PX and content of 2100 px gives totalPages = 2.
C5_AsClaimed ==
    \A i \in DOMAIN estLog :
        IsA4Run2100(estLog[i]) =>
            /\ PageHeightOf(estLog[i]) = 2970 - 200
            /\ TotalOf(estLog[i]) = [kind |-> "num", n |-> 2]

\* C5 amended: with A4 and 10 mm margins the page height is (297 - 20) mm
\* times MM_TO_PX (1046.93 px), and content of 2100 px, which is more than two
\* such pages (2093.86 px), gives totalPages = 3 with markers at one and two
\* page heights.
C5_A4Pages ==
    \A i \in DOMAIN estLog :
        IsA4Run2100(estLog[i]) =>
            /\ TotalOf(estLog[i]) = [kind |-> "num", n |-> 3]
            /\ Len(AutosOf(estLog[i])) = 2
            /\ AutosOf(estLog[i])[1].top = 2970 - 200
            /\ AutosOf(estLog[i])[2].top = 2 * (2970 - 200)

C5_Witness == \E i \in DOMAIN estLog : IsA4Run2100(estLog[i])

\* ------------------------------------------------------------------------
\* Properties of the preview
\* ------------------------------------------------------------------------

\* C1: a render call that a later call has overtaken (its generation is no
\* longer the current one) makes no change to the container when its engine
\* call settles, by success or by failure, and returns false.
C1_StaleRenderInert ==
    (resumed.id # 0 /\ resumed.stale) => (~resumed.changed /\ ~resumed.ret)

\* C1 witness: an overtaken render call, made with showErrors, whose engine
\* call failed, has returned while the container holds a diagram without
\* graphic and without annotation.
C1_Witness ==
    /\ resumed.id # 0 /\ resumed.stale /\ resumed.rejected /\ resumed.showErrors
    /\ \E i \in DOMAIN preview.blocks :
        /\ preview.blocks[i].kind = "mermaid"
        /\ ~preview.blocks[i].svg
        /\ preview.blocks[i].errs = 0

\* C2: every estimator run measures the content that its own cycle inserted:
\* no other updatePreview replaced the content in between.
C2_NoInterleaving == \A i \in DOMAIN estLog : estLog[i].own

\* C4: two successive estimator runs on the same content with the same
\* settings compute the same totalPages and the same break markers, and leave
\* the same number of injected elements in the container.
C4_Idempotent ==
    \A i \in DOMAIN estLog : \A j \in DOMAIN estLog :
        (j = i + 1 /\ estLog[i].settings = estLog[j].settings
                   /\ estLog[i].content = estLog[j].content) =>
            /\ TotalOf(estLog[i]) = TotalOf(estLog[j])
            /\ AutosOf(estLog[i]) = AutosOf(estLog[j])
            /\ Len(estLog[i].appended) = Len(estLog[j].appended)

\* Nothing is pending: no timer, no engine call, no animation-frame callback,
\* no updatePreview call in progress.
Quiescent ==
    /\ Alive
    /\ Started > 0
    /\ runs = {} /\ rafQueue = <<>> /\ timers = {} /\ debounceTimer = 0
    /\ \A c \in CycleIds : cycles[c].pc \in {"idle", "done"}

\* C21: once nothing is pending, the estimator run that ran last used the
\* settings the fields hold now, and the automatic markers in the preview
\* are those computed from these settings and the height it measured.
C21_EventuallyConsistent ==
    Quiescent =>
        /\ estLog # <<>>
        /\ PageHeightOf(estLog[Len(estLog)]) = PageHeightMm10(GetSettings(form))
        /\ SelectSeq(preview.appended, IsAutoPageBreak)
              = AutoBreaks(TotalPages(estLog[Len(estLog)].measured,
                                      PageHeightMm10(GetSettings(form))),
                           PageHeightMm10(GetSettings(form)))

\* The cycle c has its animation-frame callback in the queue q.
Queued(c, q) == \E i \in DOMAIN q : q[i] = c

\* The cycle c awaits a render call whose engine call is among rs.
Awaited(c, rs) == \E r \in rs : r.export = 0 /\ r.caller = c

C13_SamePageHeight ==
    \A i \in DOMAIN estLog :
        PageHeightOf(estLog[i])
            = BuildPrintStyles(estLog[i].settings).height
                - estLog[i].settings.margins.top - estLog[i].settings.margins.bottom

\* C14: the page content height is positive in every estimator run: no run
\* is caught in the marker loop, and every completed run divided by a
\* positive height.
C14_PositivePageHeight ==
    /\ ~hung
    /\ \A i \in DOMAIN estLog : PageHeightOf(estLog[i]) > 0

IsManualBreak(b) == b.kind = "page-break"

\* The marker, with and without its inner spaces.
Markers ==
    { << "<!--", "sp", "pagebreak", "sp", "-->" >>, << "<!--", "pagebreak", "-->" >>,
      << "<!--", "sp", "pagebreak", "-->" >>, << "<!--", "pagebreak", "sp", "-->" >> }

\* The markers of a text that begin a line.
MarkerOccurrences(text) ==
    Cardinality({ i \in DOMAIN text :
                    /\ i = 1 \/ text[i - 1] = "nl"
                    /\ \E m \in Markers : /\ i + Len(m) - 1 <= Len(text)
                                           /\ SubSeq(text, i, i + Len(m) - 1) = m })

\* C15: the HTML parse returns for a text holds one page-break block for
\* every marker that begins a line of the text, with or without the
\* marker's inner spaces, and no other page-break block.
C15_OneBreakPerMarker ==
    (returned.fn = "parse" /\ returned.args.type = "string" /\ ~returned.raises) =>
        Len(SelectSeq(returned.result.html, IsManualBreak))
            = MarkerOccurrences(returned.args.value)

\* C15 witness: parse has returned two page-break blocks for a text with
\* two markers, one without inner spaces.
C15_Witness ==
    /\ returned.fn = "parse" /\ returned.args.type = "string" /\ ~returned.raises
    /\ Len(SelectSeq(returned.result.html, IsManualBreak)) = 2
    /\ \E i \in DOMAIN returned.args.value :
          /\ returned.args.value[i] = "<!--"
          /\ At(returned.args.value, i + 1) = "pagebreak"
          /\ At(returned.args.value, i + 2) = "-->"
    /\ \E i \in DOMAIN returned.result.html : returned.result.html[i].kind = "p"

\* What a token stands for: the date, the title, nothing.
TokenValue(piece, title) ==
    CASE piece = "{date}" -> Today
      [] piece = "{title}" -> title
      [] piece \in {"{pageNumber}", "{totalPages}"} -> <<>>
      [] piece = "<" -> << "&lt;" >>
      [] OTHER -> << piece >>

\* A template with every token replaced by what it stands for.
RECURSIVE Substituted(_, _)
Substituted(template, title) ==
    IF template = <<>> THEN <<>>
    ELSE TokenValue(Head(template), title) \o Substituted(Tail(template), title)

Emitted(cls, enabled, template, title) ==
    IF enabled /\ template # <<>> /\ ~IsBlankText(Substituted(template, title))
    THEN << [cls |-> cls, text |-> Substituted(template, title)] >>
    ELSE <<>>

\* C17: buildHeaderFooterHtml returns the header, then the footer, each only
\* when enabled, with a template that is not empty and a text that is not
\* blank; the text is the template with every {date} replaced by the date,
\* every {title} by the document title, and every {pageNumber} and
\* {totalPages} by nothing.
C17_Substitution ==
    returned.fn = "buildHeaderFooterHtml" =>
        returned.result
            = Emitted("print-header", returned.args.settings.enableHeader,
                      returned.args.settings.headerTemplate, returned.args.title)
                \o Emitted("print-footer", returned.args.settings.enableFooter,
                           returned.args.settings.footerTemplate, returned.args.title)

C19_FailureDoesNotAbort ==
    [][(resumed'.id # 0 /\ resumed'.rejected) =>
          /\ resumed'.ret = FALSE
          /\ \E r \in runs \ runs' :
                /\ r.id = resumed'.id
                /\ cycles'[r.caller].pc = "raf"
                /\ Queued(r.caller, rafQueue')
          /\ Alive'
          /\ <<markdown, form, booted, debounceTimer, timers>>'
                = <<markdown, form, booted, debounceTimer, timers>>]_vars

\* C19 witness: the engine has rejected the diagram of the second
\* updatePreview call, the error is shown and the call's estimator is queued.
C19_Witness ==
    /\ resumed.id = 2 /\ resumed.rejected /\ ~resumed.stale /\ ~resumed.ret
    /\ \E i \in DOMAIN preview.blocks : preview.blocks[i].errs > 0
    /\ Queued(2, rafQueue)

\* C20: the generation counter never decreases; a render call leaves every
\* engine call that was in flight when it started stale; and a stale call's
\* completion is dropped: it returns false and shows no error.
C20_NewRenderInvalidates ==
    [][/\ currentRenderId' >= currentRenderId
       /\ Len(renderLog') = Len(renderLog) + 1 =>
             \A r \in runs : StaleAfterRun(r.id, currentRenderId')
       /\ (resumed'.id # 0 /\ resumed'.stale) => ~resumed'.ret /\ ~resumed'.changed]_vars

\* C16: parse never throws; it returns the empty string for an empty value
\* and for a value that is no string, and the error placeholder when the
\* underlying parser raises.
C16_ParseNeverThrows ==
    returned.fn = "parse" =>
        /\ ~returned.result.threw
        /\ (returned.args.type # "string" \/ returned.args.value = <<>>) =>
                returned.result.html = <<>>
        /\ (returned.args.type = "string" /\ returned.args.value # <<>> /\ returned.raises) =>
                returned.result.html = ErrorPlaceholder

\* C16 witness: the underlying parser raised on a text and parse returned
\* the placeholder.
C16_Witness ==
    /\ returned.fn = "parse" /\ returned.raises
    /\ returned.args.type = "string" /\ returned.args.value # <<>>
    /\ returned.result = [threw |-> FALSE, html |-> ErrorPlaceholder]

IsBreakSource(src) == src = "pagebreak"

\* C12: the markup an export hands to the print surface holds no automatic
\* page-break marker and no page-count display, whatever the preview pane
\* holds at that time: it is the parse of the editor's text, with one manual
\* page-break block for every page-break comment of the text and no other.
C12_NoAutoMarkersInExport ==
    \A e \in ExportIds :
        /\ exports[e].container.appended = <<>>
        /\ exports[e].markup.appended = <<>>
        /\ exports[e].extracted =>
              /\ Len(exports[e].markup.blocks) = Len(SelectSeq(markdown, IsPrinted))
              /\ \A i \in DOMAIN exports[e].markup.blocks :
                    exports[e].markup.blocks[i].kind \in {"p", "page-break", "mermaid", "code"}
              /\ Len(SelectSeq(exports[e].markup.blocks, IsManualBreak))
                    = Len(SelectSeq(markdown, IsBreakSource))

\* C12 witness: an export has read its markup, with a manual page-break in
\* it, while the preview pane holds an automatic marker and the page count.
C12_Witness ==
    \E e \in ExportIds :
        /\ exports[e].extracted
        /\ SelectSeq(exports[e].markup.blocks, IsManualBreak) # <<>>
        /\ SelectSeq(preview.appended, IsAutoPageBreak) # <<>>
        /\ SelectSeq(preview.appended, IsNotAutoPageBreak) # <<>>

\* C10: at most one debounce timer is pending; while less than 300 ms have
\* passed since the last input event no debounced updatePreview has run and the
\* timer set by that event is pending, due 300 ms after it; once more than
\* 300 ms have passed exactly one has run.
C10_Debounce ==
    /\ Cardinality(timers) <= 1
    /\ sinceInput.active =>
        /\ sinceInput.elapsed < DEBOUNCE_DELAY =>
            /\ sinceInput.updates = 0
            /\ timers = {[id |-> debounceTimer,
                          remaining |-> DEBOUNCE_DELAY - sinceInput.elapsed]}
        /\ sinceInput.elapsed = DEBOUNCE_DELAY =>
            \/ sinceInput.updates = 0 /\ timers = {[id |-> debounceTimer, remaining |-> 0]}
            \/ sinceInput.updates = 1 /\ timers = {}
        /\ sinceInput.elapsed > DEBOUNCE_DELAY =>
            /\ sinceInput.updates = 1
            /\ timers = {}

\* C10 witness: a burst of more than one input event is over and its one
\* updatePreview has run.
C10_Witness ==
    /\ sinceInput.active
    /\ sinceInput.burst = 2
    /\ sinceInput.elapsed > DEBOUNCE_DELAY
    /\ sinceInput.updates = 1

\* ------------------------------------------------------------------------
\* Properties of the renderer
\* ------------------------------------------------------------------------

\* C9: a render call that follows another on the same container, every
\* earlier call having returned and the content not having changed since,
\* makes no call to the diagram engine.
C9_SecondRenderIdle ==
    \A i \in DOMAIN renderLog : renderLog[i].follows => ~renderLog[i].engine

\* C9 witness: the first call on the content invoked the engine and has
\* returned, and a second call has followed it.
C9_Witness ==
    /\ Len(renderLog) >= 2
    /\ renderLog[1].engine
    /\ renderLog[2].follows

\* ------------------------------------------------------------------------
\* Properties of the export
\* ------------------------------------------------------------------------

\* C6: the container an export attached to the document is there only while
\* generate is between attaching it and reading the markup out of it: it is
\* gone when generate awaits the iframe and when generate has returned, be it
\* resolved or rejected, after a wait that timed out or not.
C6_ContainerRemoved ==
    \A e \in ExportIds :
        /\ exports[e].outcome # "none" => ~exports[e].attached
        /\ exports[e].pc \in {"load", "returned"} => ~exports[e].attached

\* C6 witness: a generate call one of whose waits timed out has been rejected
\* by an exception at the print handoff.
C6_Witness ==
    \E e \in ExportIds :
        /\ exports[e].outcome = "rejected"
        /\ exports[e].warnRender \/ exports[e].warnSvgs
        /\ exports[e].extracted

\* C7: with frames that keep firing and a clock that advances, an export that
\* waits for a diagram which has no graphic goes on: the wait ends once 5000 ms
\* have passed, with the warning logged, the markup is read and print() is
\* called on the iframe.
C7_NeverReadyCompletes ==
    \A e \in ExportIds :
        (exports[e].pc = "svgWait" /\ ~AllSvgsReady(exports[e].container))
            ~> (/\ exports[e].warnSvgs
                /\ exports[e].svgWaited >= SVG_MAX_WAIT
                /\ exports[e].extracted
                /\ exports[e].printCalls = 1)

\* C7 witness: an export whose diagram wait timed out has reached print().
C7_Witness ==
    \E e \in ExportIds :
        /\ exports[e].warnSvgs
        /\ exports[e].printCalls = 1
        /\ ~AllSvgsReady(exports[e].container)

\* C8: a handleExport call on markdown that is not blank sets the busy state,
\* and the step in which its generate call settles, resolved or rejected,
\* leaves the busy state cleared; it has shown one alert if generate rejected
\* and none if it resolved.  A call on blank markdown shows one alert and
\* leaves the busy state as it was.  A call that has returned shows no
\* further alert.
C8_BusyCleared ==
    [][\A e \in ExportIds :
          LET x == exports[e]
              y == exports'[e]
          IN  /\ (x.pc = "idle" /\ y.pc # "idle" /\ ~y.blank) => (y.busy /\ loading')
              /\ (x.pc = "idle" /\ y.pc # "idle" /\ y.blank) =>
                    (y.alerts = 1 /\ ~y.busy /\ y.pc = "returned" /\ loading' = loading)
              /\ (x.outcome = "none" /\ y.outcome # "none") =>
                    (/\ y.busy
                     /\ ~loading'
                     /\ y.alerts = IF y.outcome = "rejected" THEN 1 ELSE 0)
              /\ x.pc = "returned" => y.alerts = x.alerts]_vars

\* C8 witness: a handleExport call whose generate rejected has returned with
\* one alert shown and the busy state cleared.
C8_Witness ==
    \E e \in ExportIds :
        /\ exports[e].outcome = "rejected"
        /\ exports[e].busy
        /\ exports[e].alerts = 1
        /\ ~loading

\* The handleExport call e is between showLoading(true) and its finally block.
Running(e) ==
    /\ exports[e].pc # "idle"
    /\ ~exports[e].blank
    /\ exports[e].outcome = "none"

\* C22: the busy state is shown as long as a handleExport call is running.
C22_BusyWhileRunning == (\E e \in ExportIds : Running(e)) => loading

\* C23: where no updatePreview call follows the one whose render call is
\* in flight, that call returns as it would with no export at all: true when
\* the engine resolves, false with the error shown when it rejects.
C23_ExportLeavesPreviewRender ==
    [][\A r \in runs \ runs' :
          (r.export = 0 /\ r.live) =>
              /\ resumed'.id = r.id
              /\ resumed'.ret = ~EngineRejects(preview, r)
              /\ EngineRejects(preview, r) =>
                    \E i \in DOMAIN preview'.blocks : preview'.blocks[i].errs > 0]_vars

\* C24: no estimator call is caught in its marker loop, and every run that
\* has returned counted a finite number of pages.
C24_EstimatorTerminates ==
    /\ hung = FALSE
    /\ \A i \in DOMAIN estLog : TotalOf(estLog[i]).kind # "inf"

\* C25: the preview holds at most one page-count display, and every
\* estimator run measured the height of the content blocks and nothing else.
C25_OnePageDisplay ==
    /\ Len(SelectSeq(preview.appended, IsNotAutoPageBreak)) <= 1
    /\ \A i \in DOMAIN estLog : estLog[i].measured = estLog[i].content

\* C26: no diagram wrapper ever holds more than one error annotation; a
\* step adds an annotation only as the completion of a render call that the
\* engine rejected, that is not stale and that was called with showErrors,
\* and only to a diagram without a graphic.
C26_ErrorAnnotations ==
    [][/\ \A i \in DOMAIN preview'.blocks : preview'.blocks[i].errs <= 1
       /\ \A i \in DOMAIN preview.blocks :
             (/\ i \in DOMAIN preview'.blocks
              /\ preview'.blocks[i].errs > preview.blocks[i].errs) =>
                 /\ resumed'.id # 0
                 /\ resumed'.rejected /\ ~resumed'.stale /\ resumed'.showErrors
                 /\ preview'.blocks[i].kind = "mermaid"
                 /\ ~preview'.blocks[i].svg]_vars

\* C26 witness: a render call with showErrors has failed on a container of
\* two diagrams: the one without a graphic holds one annotation, the one
\* with a graphic none.
C26_Witness ==
    /\ resumed.id # 0 /\ resumed.rejected /\ ~resumed.stale /\ resumed.showErrors
    /\ \E i \in DOMAIN preview.blocks : ~preview.blocks[i].svg /\ preview.blocks[i].errs = 1
    /\ \E i \in DOMAIN preview.blocks : preview.blocks[i].svg /\ preview.blocks[i].errs = 0

\* C27: the container reset leaves has no diagram with the processed marker
\* or a graphic and no error annotation, so that render's query for
\* unprocessed diagrams finds every diagram; it is the container reset was
\* given in everything else, and the generation counter is as it was.
C27_ResetPostcondition ==
    [][returned'.fn = "reset" =>
          LET before == returned'.args.blocks
              after  == returned'.result.blocks
          IN  /\ DOMAIN after = DOMAIN before
              /\ \A i \in DOMAIN after :
                    /\ after[i].errs = 0
                    /\ after[i].kind = "mermaid" => ~after[i].processed /\ ~after[i].svg
                    /\ after[i].kind # "mermaid" =>
                          after[i].processed = before[i].processed
                              /\ after[i].svg = before[i].svg
                    /\ [after[i] EXCEPT !.processed = FALSE, !.svg = FALSE, !.errs = 0]
                          = [before[i] EXCEPT !.processed = FALSE, !.svg = FALSE, !.errs = 0]
              /\ returned'.result.appended = returned'.args.appended
              /\ UnprocessedDiagrams(returned'.result) = AllDiagrams(returned'.result)
              /\ currentRenderId' = currentRenderId]_vars

\* C27 witness: reset was called on a container with a drawn diagram and a
\* failed one with its annotation, and left both as the parser wrote them.
C27_Witness ==
    /\ returned.fn = "reset"
    /\ \E i \in DOMAIN returned.args.blocks :
          returned.args.blocks[i].processed /\ returned.args.blocks[i].svg
    /\ \E i \in DOMAIN returned.args.blocks : returned.args.blocks[i].errs = 1
    /\ returned.result.blocks = Parse(<<"diagram", "baddiagram">>, TRUE)

\* The export e has handed its iframe to print(), print() has returned and
\* the print dialog is closed.
Printed(e) ==
    /\ exports[e].printCalls = 1
    /\ exports[e].outcome = "resolved"
    /\ exports[e].dialog = "closed"

\* C28: once an export has printed and its dialog is closed, be it before or
\* after cleanup was made the afterprint handler, its iframe is eventually
\* removed from the document.
C28_IframeEventuallyRemoved ==
    \A e \in ExportIds : Printed(e) ~> (exports[e].iframe = "removed")

\* C29: the top margin of the settings an estimate was made with is the
\* number entered in the form, for every number entered, and the default
\* of 10 mm when the field holds no number.
C29_MarginAsEntered ==
    \A i \in DOMAIN estLog :
        LET entered == ParseFloat(form.marginTop)
        IN  estLog[i].settings.margins.top = IF entered.nan THEN 100 ELSE entered.v

\* C30: the paper the estimator looked up for the settings of a run has the
\* width and the height of the paper buildPrintStyles writes for the same
\* paper size, upright.
C30_SamePaperDimensions ==
    \A i \in DOMAIN estLog :
        PAPER_DIMENSIONS[estLog[i].settings.paperSize]
            = BuildPrintStyles([estLog[i].settings EXCEPT !.orientation = "portrait"])

====
